---- MODULE Spec2Model ----
(***************************************************************************)
(* Model of the task execution engine of tiup (package task: Serial and    *)
(* Parallel), translated from src/pkg/logger/audit.go.                     *)
(*                                                                         *)
(* A task is a record [kind, desc]: kind is the Go type of the task (what  *)
(* isDisplayTask inspects) and desc is strings.Split(t.String(), "\n"),    *)
(* the lines of its description.  An error value is an integer: Nil is the *)
(* nil error, ErrOf(i) the error returned by the Execute of child i and    *)
(* RbErrOf(i) the error returned by the Rollback of child i.               *)
(***************************************************************************)
EXTENDS Integers, Sequences, FiniteSets, TLC

\* ---------------------------------------------------------------- bounds
MaxChildren == 3       \* largest len(inner) explored
MaxExecCalls == 2      \* how many times Execute is called on one Serial
MaxRollbackCalls == 1  \* how many times Rollback is called on one Serial
MaxGroupSize == 200    \* largest len(inner) the progress formula is applied to
MaxDisplayChildren == 2 \* largest len(inner) of a Serial whose progress is computed
MaxComputeCalls == 2   \* how many times in a row ComputeProgress is called
MaxStepLines == 3      \* saveSteps is called while Steps is shorter than this
MaxCallers == 2        \* threads that call an operation of the Manager
MaxBufferLines == 2    \* the audit core writes while the buffer is shorter than this
MaxOutputCalls == 2    \* how many times OutputAuditLogIfEnabled is called

VARIABLES
    inner,              \* Serial.inner / Parallel.inner : sequence of tasks
    ignoreError,        \* Serial.ignoreError / Parallel.ignoreError
    hideDetailDisplay,  \* Serial.hideDetailDisplay / Parallel.hideDetailDisplay
    startedTasks,       \* Serial.startedTasks
    Progress,           \* Serial.Progress
    CurTaskSteps,       \* Serial.CurTaskSteps
    Steps,              \* Serial.Steps
    spc,                \* position of the thread inside Serial.Execute
    si,                 \* 1-based position of the range loop of Serial.Execute
    serr,               \* local err of Serial.Execute
    sret,               \* value returned by Serial.Execute (read when spc = "done")
    sCalls,             \* number of calls of Serial.Execute so far
    trace,              \* what the current Execute did to its children and to the
                        \* event sink of ctx, in order: <<what, child, error>>
    logLines,           \* lines written by log.Infof
    rbpc,               \* position of the thread inside Serial.Rollback
    rbi,                \* loop variable i of Serial.Rollback (1-based)
    rbOrder,            \* <<child, error>> of every child Rollback, in call order
    rbRet,              \* value returned by Serial.Rollback (read when rbpc = "done")
    rbCalls,            \* number of calls of Serial.Rollback so far
    ppc,                \* position of the calling thread inside Parallel.Execute
    pj,                 \* 1-based position of the range loop of Parallel.Execute
    wpc,                \* per child, position of the goroutine started for it
    werr,               \* per child, local err of its goroutine
    firstError,         \* local firstError of Parallel.Execute
    mu,                 \* local mu: 0 when unlocked, else the child whose goroutine holds it
    wg,                 \* counter of the local WaitGroup wg
    pret,               \* value returned by Parallel.Execute (read when ppc = "done")
    pstat,              \* per child, how many begin events, Execute calls and finish
                        \* events its goroutine has produced
    pLogged,            \* children for which log.Infof wrote a "+ [Parallel] - " line
    firstLocker,        \* child whose goroutine was the first to acquire mu (0: none yet)
    firstErrorWrites,   \* number of assignments to firstError made by goroutines
    rpc,                \* position of the calling thread inside Parallel.Rollback
    rj,                 \* 1-based position of the range loop of Parallel.Rollback
    rwpc,               \* per child, position of the rollback goroutine started for it
    rerr,               \* per child, local err of its rollback goroutine
    rfirstError,        \* local firstError of Parallel.Rollback
    rmu,                \* local mu of Parallel.Rollback (0 when unlocked)
    rwg,                \* counter of the local WaitGroup wg of Parallel.Rollback
    rret,               \* value returned by Parallel.Rollback (read when rpc = "done")
    rstat,              \* per child, number of calls of its Rollback
    rFirstLocker,       \* child whose rollback goroutine first acquired mu (0: none yet)
    wctx,               \* per child, checkpoint handle of the ctx its Execute goroutine got
    rctx,               \* per child, checkpoint handle of the ctx its Rollback goroutine got
    nextHandle,         \* number of checkpoint handles forked so far
    ckptTrace,          \* per checkpoint handle, the goroutines that traced into it
    sdProgress,         \* per StepDisplay of the tree, its progress field
    cpCalls,            \* calls of Serial.ComputeProgress since a progress field was last written
    cpResult,           \* what the last of these calls returned
    lastSave,           \* arguments of the last direct call of Serial.saveSteps
    operationInfo,      \* the package-level operationInfo record of package manager
    infoBy,             \* per field of operationInfo, the caller whose store it holds (0: none)
    mop,                \* per caller of a Manager operation, its arguments, position and locals
    auditEnabled,       \* logger.auditEnabled
    auditDir,           \* logger.auditDir
    auditCore,          \* newAuditLogCore has run: auditBuffer is not nil
    auditBuffer,        \* contents of *logger.auditBuffer, one element per line
    auditDirs,          \* directories utils2.CreateDir has created
    auditFiles,         \* <<dir, contents>> of the audit files audit.OutputAuditLog has written
    auditRet,           \* what the last OutputAuditLogIfEnabled returned
    auditCalls,         \* number of calls of OutputAuditLogIfEnabled so far
    auditLast,          \* the last call of package logger and what its callees returned
    auditPanic          \* a nil auditBuffer was dereferenced

svars == <<startedTasks, Progress, CurTaskSteps, Steps, spc, si, serr, sret,
           sCalls, trace, logLines>>
rbvars == <<rbpc, rbi, rbOrder, rbRet, rbCalls>>
cfgvars == <<inner, ignoreError, hideDetailDisplay>>
pvars == <<ppc, pj, wpc, werr, firstError, mu, wg, pret, pstat, pLogged,
           firstLocker, firstErrorWrites>>
prvars == <<rpc, rj, rwpc, rerr, rfirstError, rmu, rwg, rret, rstat, rFirstLocker>>
hvars == <<wctx, rctx, nextHandle, ckptTrace>>
dvars == <<sdProgress, cpCalls, cpResult>>
kvars == <<lastSave>>
mvars == <<operationInfo, infoBy, mop>>
avars == <<auditEnabled, auditDir, auditCore, auditBuffer, auditDirs, auditFiles,
           auditRet, auditCalls, auditLast, auditPanic>>
vars == <<cfgvars, svars, rbvars, pvars, prvars, hvars, dvars, kvars, mvars, avars>>

\* what each operation leaves alone
SerialFrame == <<cfgvars, rbvars, pvars, prvars, hvars, dvars, kvars, mvars, avars>>
RollbackFrame == <<cfgvars, svars, pvars, prvars, hvars, dvars, kvars, mvars, avars>>
ParallelFrame == <<cfgvars, svars, rbvars, prvars, dvars, kvars, mvars, avars>>
ParallelRollbackFrame == <<cfgvars, svars, rbvars, pvars, dvars, kvars, mvars, avars>>
DisplayFrame == <<cfgvars, rbvars, pvars, prvars, hvars, kvars, mvars, avars>>
SaveStepsFrame == <<cfgvars, rbvars, pvars, prvars, hvars, dvars, mvars, avars>>
AuditFrame == <<cfgvars, svars, rbvars, pvars, prvars, hvars, dvars, kvars, mvars>>
ManagerFrame == <<cfgvars, svars, rbvars, pvars, prvars, hvars, dvars, kvars, avars>>

\* ---------------------------------------------------------------- values
Nil == 0
ErrOf(i) == i
RbErrOf(i) == 0 - i

Name(i) == "T" \o ToString(i)

\* The tasks a Builder can put at position i of a group: an ad-hoc function
\* with a one-line description, a display step whose description has a blank
\* line in the middle, and a task whose description is empty.
TaskShapes(i) ==
    { [kind |-> "Func",        desc |-> <<Name(i)>>],
      [kind |-> "StepDisplay", desc |-> <<Name(i), " ", Name(i) \o "b">>],
      [kind |-> "Func",        desc |-> <<"">>] }

Groups ==
    UNION { { g \in [1..n -> UNION { TaskShapes(i) : i \in 1..n }] :
                \A i \in 1..n : g[i] \in TaskShapes(i) } : n \in 0..MaxChildren }

\* Groups of up to MaxGroupSize ad-hoc functions, for the arithmetic of the
\* progress block.
LargeGroups ==
    { [j \in 1..n |-> [kind |-> "Func", desc |-> <<Name(j)>>]] : n \in 1..MaxGroupSize }

N == Len(inner)

isDisplayTask(t) == t.kind \in {"Serial", "Parallel", "StepDisplay", "ParallelStepDisplay"}

\* strings.TrimSpace(l) != ""
NotBlank(l) == l \notin {"", " ", "  "}

\* fmt.Sprintf("- %s ... %s", l, stepStatus)
FormatStep(l, stepStatus) == "- " \o l \o " ... " \o stepStatus

\* The lines saveSteps builds for one task and status.
StepLines(curTask, stepStatus) ==
    LET nb == SelectSeq(curTask.desc, NotBlank)
    IN  [j \in 1..Len(nb) |-> FormatStep(nb[j], stepStatus)]

\* Serial.saveSteps: the new values of CurTaskSteps and Steps.
saveStepsAlwaysAppending(curTask, stepStatus, steps) ==
    LET cur == StepLines(curTask, stepStatus)
    IN  [CurTaskSteps |-> IF stepStatus = "Done" THEN <<>> ELSE cur,
         Steps |-> steps \o cur]
saveSteps(curTask, stepStatus, steps) ==
    LET cur == StepLines(curTask, stepStatus)
    IN  IF stepStatus = "Done"
        THEN [CurTaskSteps |-> <<>>, Steps |-> steps \o cur]
        ELSE [CurTaskSteps |-> cur,  Steps |-> steps]

\* the three values of stepStatus (comment of line 378)
StepStatuses == {"Starting", "Error", "Done"}

\* "save progress internal" of Serial.Execute
oneTaskPercentHalf(n) ==
    LET h == (100 \div n) \div 2 IN IF h = 0 THEN 1 ELSE h

ProvisionalProgressCountingSelf(started, n) ==
    (((started + 1) * 100) \div n) + oneTaskPercentHalf(n)
ProvisionalProgress(started, n) == ((started * 100) \div n) + oneTaskPercentHalf(n)

\* line 375: the value Progress gets when the loop is exhausted
StaleProgress == 100 - 1
FullProgressUnlessEmpty == IF N = 0 THEN 0 ELSE 100
FullProgress == 100

\* line 369: the error handed to PublishTaskFinish
FinishErrorNil(err) == Nil
FinishError(err) == err

\* line 370: the condition under which Serial.Execute gives up
SerialAbortsAlways(err) == err # Nil /\ TRUE
SerialNeverAborts(err) == FALSE
SerialAborts(err) == err # Nil /\ ~ignoreError

\* ---------------------------------------------------------------- Serial.Execute
InitConfig ==
    /\ inner \in Groups
    /\ ignoreError \in BOOLEAN
    /\ hideDetailDisplay \in BOOLEAN

InitSerial ==
    /\ lastSave = <<>>
    /\ startedTasks = 0
    /\ Progress = 0
    /\ CurTaskSteps = <<>>
    /\ Steps = <<>>
    /\ spc = "idle"
    /\ si = 0
    /\ serr = Nil
    /\ sret = Nil
    /\ sCalls = 0
    /\ trace = <<>>
    /\ logLines = <<>>

InitRollback ==
    /\ rbpc = "idle"
    /\ rbi = 0
    /\ rbOrder = <<>>
    /\ rbRet = Nil
    /\ rbCalls = 0

\* A caller invokes s.Execute(ctx) with a fresh context.
SerialExecuteCall ==
    /\ spc \in {"idle", "done"}
    /\ rbpc \in {"idle", "done"}
    /\ sCalls < MaxExecCalls
    /\ sCalls' = sCalls + 1
    /\ spc' = "loop"
    /\ si' = 1
    /\ serr' = Nil
    /\ sret' = Nil
    /\ trace' = <<>>
    /\ UNCHANGED <<startedTasks, Progress, CurTaskSteps, Steps, logLines>>
    /\ UNCHANGED SerialFrame

\* Lines 352-367: the part of one iteration before the child runs.
SerialBeginChild ==
    /\ spc = "loop"
    /\ si <= N
    /\ LET t == inner[si]
           saved == saveSteps(t, "Starting", Steps)
       IN  /\ logLines' = IF ~isDisplayTask(t) /\ ~hideDetailDisplay
                          THEN Append(logLines, <<"+ [ Serial ] - ", t.desc>>)
                          ELSE logLines
           /\ Progress' = ProvisionalProgress(startedTasks, N)
           /\ startedTasks' = startedTasks + 1
           /\ CurTaskSteps' = saved.CurTaskSteps
           /\ Steps' = saved.Steps
           /\ trace' = Append(trace, <<"begin", si, Nil>>)
    /\ spc' = "call"
    /\ UNCHANGED <<si, serr, sret, sCalls>>
    /\ UNCHANGED SerialFrame

\* Lines 359-364 alone: the progress block as it runs once per child begun,
\* over MaxExecCalls executions in which every child is reached.
SerialSaveProgress ==
    /\ startedTasks < N * MaxExecCalls
    /\ Progress' = ProvisionalProgress(startedTasks, N)
    /\ startedTasks' = startedTasks + 1
    /\ UNCHANGED <<CurTaskSteps, Steps, spc, si, serr, sret, sCalls, trace, logLines>>
    /\ UNCHANGED SerialFrame

\* s.saveSteps(t, stepStatus) called on its own, for child i and any status.
SaveStepsCall(i, stepStatus) ==
    /\ Len(Steps) < MaxStepLines
    /\ LET saved == saveSteps(inner[i], stepStatus, Steps)
       IN  /\ CurTaskSteps' = saved.CurTaskSteps
           /\ Steps' = saved.Steps
    /\ lastSave' = <<i, stepStatus>>
    /\ UNCHANGED <<startedTasks, Progress, spc, si, serr, sret, sCalls, trace, logLines>>
    /\ UNCHANGED SaveStepsFrame

\* Line 368: t.Execute(ctx) is entered.
SerialChildCallAsync ==
    /\ spc = "call"
    /\ trace' = Append(trace, <<"execute", si, Nil>>)
    /\ spc' = "loop"
    /\ si' = si + 1
    /\ UNCHANGED <<startedTasks, Progress, CurTaskSteps, Steps, serr, sret,
                   sCalls, logLines>>
    /\ UNCHANGED SerialFrame

SerialChildCall ==
    /\ spc = "call"
    /\ trace' = Append(trace, <<"execute", si, Nil>>)
    /\ spc' = "running"
    /\ UNCHANGED <<startedTasks, Progress, CurTaskSteps, Steps, si, serr, sret,
                   sCalls, logLines>>
    /\ UNCHANGED SerialFrame

\* Line 368: t.Execute(ctx) returns nil or the child's error.
SerialChildReturn ==
    /\ spc = "running"
    /\ \E e \in {Nil, ErrOf(si)} :
          /\ serr' = e
          /\ trace' = Append(trace, <<"return", si, e>>)
    /\ spc' = "returned"
    /\ UNCHANGED <<startedTasks, Progress, CurTaskSteps, Steps, si, sret,
                   sCalls, logLines>>
    /\ UNCHANGED SerialFrame

\* Line 369: the finish event carries the child's result.
SerialPublishFinish ==
    /\ spc = "returned"
    /\ trace' = Append(trace, <<"finish", si, FinishError(serr)>>)
    /\ spc' = "finished"
    /\ UNCHANGED <<startedTasks, Progress, CurTaskSteps, Steps, si, serr, sret,
                   sCalls, logLines>>
    /\ UNCHANGED SerialFrame

\* Lines 370-374: the error check that ends the iteration.
SerialAfterChild ==
    /\ spc = "finished"
    /\ IF SerialAborts(serr)
       THEN LET saved == saveSteps(inner[si], "Error", Steps)
            IN  /\ CurTaskSteps' = saved.CurTaskSteps
                /\ Steps' = saved.Steps
                /\ sret' = serr
                /\ spc' = "done"
                /\ si' = si
       ELSE /\ si' = si + 1
            /\ spc' = "loop"
            /\ UNCHANGED <<CurTaskSteps, Steps, sret>>
    /\ UNCHANGED <<startedTasks, Progress, serr, sCalls, trace, logLines>>
    /\ UNCHANGED SerialFrame

\* Lines 375-376: the loop is exhausted.
SerialFinish ==
    /\ spc = "loop"
    /\ si > N
    /\ Progress' = FullProgress
    /\ sret' = Nil
    /\ spc' = "done"
    /\ UNCHANGED <<startedTasks, CurTaskSteps, Steps, si, serr, sCalls, trace,
                   logLines>>
    /\ UNCHANGED SerialFrame

\* ---------------------------------------------------------------- Serial.ComputeProgress
\* The children of a Serial whose progress is displayed: an ad-hoc function, a
\* StepDisplay, and a ParallelStepDisplay over a Parallel of two StepDisplays
\* with an ad-hoc function between them.
DisplayShapes(i) ==
    { [kind |-> "Func", desc |-> <<Name(i)>>],
      [kind |-> "StepDisplay", desc |-> <<Name(i)>>, prefix |-> "S" \o ToString(i)],
      [kind |-> "ParallelStepDisplay", desc |-> <<Name(i)>>,
       prefix |-> "P" \o ToString(i),
       steps |-> << [kind |-> "StepDisplay", prefix |-> "S" \o ToString(i) \o ".1"],
                    [kind |-> "Func"],
                    [kind |-> "StepDisplay", prefix |-> "S" \o ToString(i) \o ".3"] >>] }

DisplayGroups ==
    UNION { { g \in [1..n -> UNION { DisplayShapes(i) : i \in 1..n }] :
                \A i \in 1..n : g[i] \in DisplayShapes(i) } : n \in 0..MaxDisplayChildren }

\* psd.inner.inner
ParallelSteps(t) == IF t.kind = "ParallelStepDisplay" THEN t.steps ELSE <<>>

\* The StepDisplays ComputeProgress can reach: <<i>> is child i of the Serial,
\* <<i, k>> is child k of the Parallel inside child i.
StepIds ==
    { <<i>> : i \in { j \in 1..N : inner[j].kind = "StepDisplay" } }
    \cup UNION { { <<i, k>> : k \in { l \in DOMAIN ParallelSteps(inner[i]) :
                                        ParallelSteps(inner[i])[l].kind = "StepDisplay" } }
                 : i \in 1..N }

\* the values a step reports while it runs
ProgressValues == {50, 100}

\* line 423
IsFinishedStepStarted(pr) == pr > 0
IsFinishedStep(pr) == pr = 100

\* lines 455-458
TotalProgressCeil(finished, all) ==
    IF all > 0 THEN ((finished * 100) + (all - 1)) \div all ELSE 0
TotalProgress(finished, all) ==
    IF all > 0 THEN (finished * 100) \div all ELSE 0

\* lines 421-430: handleStepDisplay on the StepDisplay id, folded into the
\* counters; status holds the returned string when it is not empty
EmptyWalk == [all |-> 0, finished |-> 0, status |-> <<>>, visited |-> <<>>]
handleStepDisplayShowingZero(acc, sd, id, pr) ==
    [ all      |-> acc.all + 1,
      finished |-> acc.finished + (IF IsFinishedStep(pr[id]) THEN 1 ELSE 0),
      status   |-> Append(acc.status,
                          sd.prefix \o " ... " \o ToString(pr[id]) \o "%"),
      visited  |-> Append(acc.visited, id) ]
handleStepDisplay(acc, sd, id, pr) ==
    [ all      |-> acc.all + 1,
      finished |-> acc.finished + (IF IsFinishedStep(pr[id]) THEN 1 ELSE 0),
      status   |-> IF pr[id] > 0
                   THEN Append(acc.status,
                               sd.prefix \o " ... " \o ToString(pr[id]) \o "%")
                   ELSE acc.status,
      visited  |-> Append(acc.visited, id) ]

\* lines 441-448: the loop over psd.inner.inner, from position k on
RECURSIVE WalkParallel(_, _, _, _, _)
WalkParallel(acc, steps, i, k, pr) ==
    IF k > Len(steps)
    THEN acc
    ELSE WalkParallel(IF steps[k].kind = "StepDisplay"
                      THEN handleStepDisplay(acc, steps[k], <<i, k>>, pr)
                      ELSE acc,
                      steps, i, k + 1, pr)

\* lines 432-454: the loop over s.inner, from position i on
RECURSIVE WalkSerial(_, _, _, _)
WalkSerial(acc, tasks, i, pr) ==
    IF i > Len(tasks)
    THEN acc
    ELSE LET step == tasks[i]
             afterSd == IF step.kind = "StepDisplay"
                        THEN handleStepDisplay(acc, step, <<i>>, pr)
                        ELSE acc
             sub == WalkParallel([afterSd EXCEPT !.status = <<>>],
                                 ParallelSteps(step), i, 1, pr)
             afterPsd == IF step.kind = "ParallelStepDisplay"
                         THEN [sub EXCEPT !.status =
                                  IF Len(sub.status) > 0
                                  THEN (afterSd.status \o <<step.prefix>>) \o sub.status
                                  ELSE afterSd.status]
                         ELSE afterSd
         IN  WalkSerial(afterPsd, tasks, i + 1, pr)

\* lines 416-462; the two counters and the steps visited are kept next to the
\* two returned values
ComputeProgress(tasks, pr) ==
    LET w == WalkSerial(EmptyWalk, tasks, 1, pr)
    IN  [ stepsStatus   |-> w.status,
          totalProgress |-> TotalProgress(w.finished, w.all),
          allStepsCount |-> w.all,
          finishedSteps |-> w.finished,
          visited       |-> w.visited ]

NoResult == ComputeProgress(<<>>, <<>>)

InitDisplay ==
    /\ sdProgress = [id \in StepIds |-> 0]
    /\ cpCalls = 0
    /\ cpResult = NoResult

\* The task wrapped by a StepDisplay reports progress while it runs.
StepReport(id, v) ==
    /\ spc = "running"
    /\ id[1] = si
    /\ v > sdProgress[id]
    /\ sdProgress' = [sdProgress EXCEPT ![id] = v]
    /\ cpCalls' = 0
    /\ cpResult' = NoResult
    /\ UNCHANGED svars
    /\ UNCHANGED DisplayFrame

\* A caller invokes s.ComputeProgress(), at any point of an Execute.
ComputeProgressCallStoring ==
    /\ cpCalls < MaxComputeCalls
    /\ cpCalls' = cpCalls + 1
    /\ cpResult' = ComputeProgress(inner, sdProgress)
    /\ Progress' = cpResult'.totalProgress
    /\ UNCHANGED <<startedTasks, CurTaskSteps, Steps, spc, si, serr, sret,
                   sCalls, trace, logLines>>
    /\ UNCHANGED sdProgress
    /\ UNCHANGED DisplayFrame

ComputeProgressCall ==
    /\ cpCalls < MaxComputeCalls
    /\ cpCalls' = cpCalls + 1
    /\ cpResult' = ComputeProgress(inner, sdProgress)
    /\ UNCHANGED sdProgress
    /\ UNCHANGED svars
    /\ UNCHANGED DisplayFrame

\* ---------------------------------------------------------------- Serial.Rollback
\* line 397: the first index visited and the next one (1-based)
RollbackFirstForward(n) == IF n = 0 THEN 0 ELSE 1
RollbackFirstStarted(n) == IF startedTasks < n THEN startedTasks ELSE n
RollbackFirst(n) == n
RollbackNext(i) == i - 1
RollbackMore(i) == i >= 1

\* A caller invokes s.Rollback(ctx).
SerialRollbackCall ==
    /\ rbpc \in {"idle", "done"}
    /\ spc \in {"idle", "done"}
    /\ rbCalls < MaxRollbackCalls
    /\ rbCalls' = rbCalls + 1
    /\ rbi' = RollbackFirst(N)
    /\ rbOrder' = <<>>
    /\ rbRet' = Nil
    /\ rbpc' = "loop"
    /\ UNCHANGED RollbackFrame

\* Lines 398-401: one child's Rollback runs and returns nil or its error.
SerialRollbackChild ==
    /\ rbpc = "loop"
    /\ RollbackMore(rbi)
    /\ \E e \in {Nil, RbErrOf(rbi)} :
          /\ rbOrder' = Append(rbOrder, <<rbi, e>>)
          /\ IF e # Nil
             THEN /\ rbRet' = e
                  /\ rbpc' = "done"
                  /\ rbi' = rbi
             ELSE /\ rbi' = RollbackNext(rbi)
                  /\ UNCHANGED <<rbRet, rbpc>>
    /\ UNCHANGED rbCalls
    /\ UNCHANGED RollbackFrame

\* Line 403: the loop is exhausted.
SerialRollbackFinish ==
    /\ rbpc = "loop"
    /\ ~RollbackMore(rbi)
    /\ rbRet' = Nil
    /\ rbpc' = "done"
    /\ UNCHANGED <<rbi, rbOrder, rbCalls>>
    /\ UNCHANGED RollbackFrame

\* ---------------------------------------------------------------- Parallel.Execute
\* lines 487-489: the first-error cell after a failing goroutine passed by
FirstErrorLastWins(cur, err) == err
FirstErrorDropped(cur, err) == cur
FirstErrorAfter(cur, err) == IF cur = Nil THEN err ELSE cur

\* line 494: wg.Wait() lets the caller go on
WaitReleasedEarly == TRUE
WaitReleased == wg = 0

\* lines 495-498: the value Parallel.Execute returns
ParallelResultRaw(fe) == fe
ParallelResult(fe) == IF ignoreError THEN Nil ELSE fe

\* The checkpoint handle carried by the ctx the caller passes in, and the
\* value of a goroutine's handle before it is started.
ParentHandle == 0
NoHandle == 0 - 1

\* checkpoint.NewContext(ctx): a new layer of checkpoint context, with a
\* handle that no other context carries (forked counts the handles made so far).
NewContext(parent, forked) == forked + 1

\* lines 492 and 522: the ctx argument of the go statement
GoroutineContextShared(parent, forked) == parent
GoroutineContext(parent, forked) == NewContext(parent, forked)

InitHandles ==
    /\ wctx = [i \in 1..N |-> NoHandle]
    /\ rctx = [i \in 1..N |-> NoHandle]
    /\ nextHandle = 0
    /\ ckptTrace = [h \in 0..(2 * N) |-> {}]

InitParallel ==
    /\ ppc = "idle"
    /\ pj = 0
    /\ wpc = [i \in 1..N |-> "none"]
    /\ werr = [i \in 1..N |-> Nil]
    /\ firstError = Nil
    /\ mu = 0
    /\ wg = 0
    /\ pret = Nil
    /\ pstat = [i \in 1..N |-> [begin |-> 0, execute |-> 0, finish |-> 0]]
    /\ pLogged = {}
    /\ firstLocker = 0
    /\ firstErrorWrites = 0

\* A caller invokes pt.Execute(ctx); lines 466-468 declare the locals.
ParallelExecuteCall ==
    /\ ppc = "idle"
    /\ rpc \in {"idle", "done"}
    /\ ppc' = "spawn"
    /\ pj' = 1
    /\ firstError' = Nil
    /\ mu' = 0
    /\ wg' = 0
    /\ UNCHANGED <<wpc, werr, pret, pstat, pLogged, firstLocker, firstErrorWrites>>
    /\ UNCHANGED <<ParallelFrame, hvars>>

\* Lines 469-493: one iteration of the loop: wg.Add(1) and the go statement.
ParallelSpawn ==
    /\ ppc = "spawn"
    /\ pj <= N
    /\ wg' = wg + 1
    /\ wpc' = [wpc EXCEPT ![pj] = "start"]
    /\ pj' = pj + 1
    /\ wctx' = [wctx EXCEPT ![pj] = GoroutineContext(ParentHandle, nextHandle)]
    /\ nextHandle' = nextHandle + 1
    /\ UNCHANGED <<ppc, werr, firstError, mu, pret, pstat, pLogged, firstLocker,
                   firstErrorWrites>>
    /\ UNCHANGED <<rctx, ckptTrace>>
    /\ UNCHANGED ParallelFrame

\* Lines 477-483: the goroutine of child i logs, publishes the begin event and
\* enters t.Execute(ctx).
WorkerStart(i) ==
    /\ wpc[i] = "start"
    /\ pLogged' = IF ~isDisplayTask(inner[i]) /\ ~hideDetailDisplay
                  THEN pLogged \cup {i} ELSE pLogged
    /\ pstat' = [pstat EXCEPT ![i].begin = @ + 1, ![i].execute = @ + 1]
    /\ wpc' = [wpc EXCEPT ![i] = "running"]
    /\ ckptTrace' = [ckptTrace EXCEPT ![wctx[i]] = @ \cup {<<"Execute", i>>}]
    /\ UNCHANGED <<ppc, pj, werr, firstError, mu, wg, pret, firstLocker,
                   firstErrorWrites>>
    /\ UNCHANGED <<wctx, rctx, nextHandle>>
    /\ UNCHANGED ParallelFrame

\* Line 483: t.Execute(ctx) returns nil or the child's error.
WorkerChildReturn(i) ==
    /\ wpc[i] = "running"
    /\ \E e \in {Nil, ErrOf(i)} : werr' = [werr EXCEPT ![i] = e]
    /\ wpc' = [wpc EXCEPT ![i] = "returned"]
    /\ UNCHANGED <<ppc, pj, firstError, mu, wg, pret, pstat, pLogged, firstLocker,
                   firstErrorWrites>>
    /\ UNCHANGED <<ParallelFrame, hvars>>

\* Lines 484-485: the finish event, then the error check.
WorkerFinish(i) ==
    /\ wpc[i] = "returned"
    /\ pstat' = [pstat EXCEPT ![i].finish = @ + 1]
    /\ wpc' = [wpc EXCEPT ![i] = IF werr[i] # Nil THEN "lock" ELSE "exit"]
    /\ UNCHANGED <<ppc, pj, werr, firstError, mu, wg, pret, pLogged, firstLocker,
                   firstErrorWrites>>
    /\ UNCHANGED <<ParallelFrame, hvars>>

\* Line 486: mu.Lock() succeeds once the mutex is free.
WorkerLock(i) ==
    /\ wpc[i] = "lock"
    /\ mu = 0
    /\ mu' = i
    /\ firstLocker' = IF firstLocker = 0 THEN i ELSE firstLocker
    /\ wpc' = [wpc EXCEPT ![i] = "locked"]
    /\ UNCHANGED <<ppc, pj, werr, firstError, wg, pret, pstat, pLogged,
                   firstErrorWrites>>
    /\ UNCHANGED <<ParallelFrame, hvars>>

\* Lines 487-489: the first-error cell is set if it is still empty.
WorkerSetFirstError(i) ==
    /\ wpc[i] = "locked"
    /\ firstError' = FirstErrorAfter(firstError, werr[i])
    /\ firstErrorWrites' = IF firstError' # firstError
                           THEN firstErrorWrites + 1 ELSE firstErrorWrites
    /\ wpc' = [wpc EXCEPT ![i] = "unlock"]
    /\ UNCHANGED <<ppc, pj, werr, mu, wg, pret, pstat, pLogged, firstLocker>>
    /\ UNCHANGED <<ParallelFrame, hvars>>

\* Line 490: mu.Unlock().
WorkerUnlockForgotten(i) ==
    /\ wpc[i] = "unlock"
    /\ wpc' = [wpc EXCEPT ![i] = "exit"]
    /\ UNCHANGED <<ppc, pj, werr, firstError, mu, wg, pret, pstat, pLogged,
                   firstLocker, firstErrorWrites>>
    /\ UNCHANGED <<ParallelFrame, hvars>>

WorkerUnlock(i) ==
    /\ wpc[i] = "unlock"
    /\ mu' = 0
    /\ wpc' = [wpc EXCEPT ![i] = "exit"]
    /\ UNCHANGED <<ppc, pj, werr, firstError, wg, pret, pstat, pLogged, firstLocker,
                   firstErrorWrites>>
    /\ UNCHANGED <<ParallelFrame, hvars>>

\* Line 476: the deferred wg.Done() runs as the goroutine ends.
WorkerDone(i) ==
    /\ wpc[i] = "exit"
    /\ wg' = wg - 1
    /\ wpc' = [wpc EXCEPT ![i] = "gone"]
    /\ UNCHANGED <<ppc, pj, werr, firstError, mu, pret, pstat, pLogged, firstLocker,
                   firstErrorWrites>>
    /\ UNCHANGED <<ParallelFrame, hvars>>

\* Lines 494-498: wg.Wait() returns and Execute returns its result.
ParallelReturn ==
    /\ ppc = "spawn"
    /\ pj > N
    /\ WaitReleased
    /\ pret' = ParallelResult(firstError)
    /\ ppc' = "done"
    /\ UNCHANGED <<pj, wpc, werr, firstError, mu, wg, pstat, pLogged, firstLocker,
                   firstErrorWrites>>
    /\ UNCHANGED <<ParallelFrame, hvars>>

\* ---------------------------------------------------------------- Parallel.Rollback
\* line 524: wg.Wait() lets the caller of Rollback go on
RollbackWaitReleasedEarly == TRUE
RollbackWaitReleased == rwg = 0

\* line 525: the value Parallel.Rollback returns
RollbackResultIgnoring(fe) == IF ignoreError THEN Nil ELSE fe
RollbackResult(fe) == fe

InitParallelRollback ==
    /\ rpc = "idle"
    /\ rj = 0
    /\ rwpc = [i \in 1..N |-> "none"]
    /\ rerr = [i \in 1..N |-> Nil]
    /\ rfirstError = Nil
    /\ rmu = 0
    /\ rwg = 0
    /\ rret = Nil
    /\ rstat = [i \in 1..N |-> 0]
    /\ rFirstLocker = 0

\* A caller invokes pt.Rollback(ctx); lines 503-505 declare the locals.
ParallelRollbackCall ==
    /\ rpc = "idle"
    /\ ppc \in {"idle", "done"}
    /\ rpc' = "spawn"
    /\ rj' = 1
    /\ rfirstError' = Nil
    /\ rmu' = 0
    /\ rwg' = 0
    /\ UNCHANGED <<rwpc, rerr, rret, rstat, rFirstLocker>>
    /\ UNCHANGED <<ParallelRollbackFrame, hvars>>

\* Lines 506-523: one iteration of the loop: wg.Add(1) and the go statement.
ParallelRollbackSpawn ==
    /\ rpc = "spawn"
    /\ rj <= N
    /\ rwg' = rwg + 1
    /\ rwpc' = [rwpc EXCEPT ![rj] = "start"]
    /\ rj' = rj + 1
    /\ rctx' = [rctx EXCEPT ![rj] = GoroutineContext(ParentHandle, nextHandle)]
    /\ nextHandle' = nextHandle + 1
    /\ UNCHANGED <<rpc, rerr, rfirstError, rmu, rret, rstat, rFirstLocker>>
    /\ UNCHANGED <<wctx, ckptTrace>>
    /\ UNCHANGED ParallelRollbackFrame

\* Line 514: the goroutine of child i enters t.Rollback(ctx).
RollbackWorkerStart(i) ==
    /\ rwpc[i] = "start"
    /\ rstat' = [rstat EXCEPT ![i] = @ + 1]
    /\ rwpc' = [rwpc EXCEPT ![i] = "running"]
    /\ ckptTrace' = [ckptTrace EXCEPT ![rctx[i]] = @ \cup {<<"Rollback", i>>}]
    /\ UNCHANGED <<rpc, rj, rerr, rfirstError, rmu, rwg, rret, rFirstLocker>>
    /\ UNCHANGED <<wctx, rctx, nextHandle>>
    /\ UNCHANGED ParallelRollbackFrame

\* Lines 514-515: t.Rollback(ctx) returns nil or the child's error, then the
\* error check.
RollbackWorkerChildReturn(i) ==
    /\ rwpc[i] = "running"
    /\ \E e \in {Nil, RbErrOf(i)} :
          /\ rerr' = [rerr EXCEPT ![i] = e]
          /\ rwpc' = [rwpc EXCEPT ![i] = IF e # Nil THEN "lock" ELSE "exit"]
    /\ UNCHANGED <<rpc, rj, rfirstError, rmu, rwg, rret, rstat, rFirstLocker>>
    /\ UNCHANGED <<ParallelRollbackFrame, hvars>>

\* Line 516: mu.Lock() succeeds once the mutex is free.
RollbackWorkerLock(i) ==
    /\ rwpc[i] = "lock"
    /\ rmu = 0
    /\ rmu' = i
    /\ rFirstLocker' = IF rFirstLocker = 0 THEN i ELSE rFirstLocker
    /\ rwpc' = [rwpc EXCEPT ![i] = "locked"]
    /\ UNCHANGED <<rpc, rj, rerr, rfirstError, rwg, rret, rstat>>
    /\ UNCHANGED <<ParallelRollbackFrame, hvars>>

\* Lines 517-519: the first-error cell is set if it is still empty.
RollbackWorkerSetFirstError(i) ==
    /\ rwpc[i] = "locked"
    /\ rfirstError' = FirstErrorAfter(rfirstError, rerr[i])
    /\ rwpc' = [rwpc EXCEPT ![i] = "unlock"]
    /\ UNCHANGED <<rpc, rj, rerr, rmu, rwg, rret, rstat, rFirstLocker>>
    /\ UNCHANGED <<ParallelRollbackFrame, hvars>>

\* Line 520: mu.Unlock().
RollbackWorkerUnlock(i) ==
    /\ rwpc[i] = "unlock"
    /\ rmu' = 0
    /\ rwpc' = [rwpc EXCEPT ![i] = "exit"]
    /\ UNCHANGED <<rpc, rj, rerr, rfirstError, rwg, rret, rstat, rFirstLocker>>
    /\ UNCHANGED <<ParallelRollbackFrame, hvars>>

\* Line 513: the deferred wg.Done() runs as the goroutine ends.
RollbackWorkerDone(i) ==
    /\ rwpc[i] = "exit"
    /\ rwg' = rwg - 1
    /\ rwpc' = [rwpc EXCEPT ![i] = "gone"]
    /\ UNCHANGED <<rpc, rj, rerr, rfirstError, rmu, rret, rstat, rFirstLocker>>
    /\ UNCHANGED <<ParallelRollbackFrame, hvars>>

\* Lines 524-525: wg.Wait() returns and Rollback returns firstError.
ParallelRollbackReturn ==
    /\ rpc = "spawn"
    /\ rj > N
    /\ RollbackWaitReleased
    /\ rret' = RollbackResult(rfirstError)
    /\ rpc' = "done"
    /\ UNCHANGED <<rj, rwpc, rerr, rfirstError, rmu, rwg, rstat, rFirstLocker>>
    /\ UNCHANGED <<ParallelRollbackFrame, hvars>>

\* ---------------------------------------------------------------- Manager operations
Callers == 1..MaxCallers

\* the five entry points that share the shape of lines 103-267
OperationKinds == {"start", "stop", "restart", "enable", "disable"}

\* DoStartCluster and DoStopCluster are the two wrappers around operationInfo
HasWrapper(kind) == kind \in {"start", "stop"}

\* StartCluster, StopCluster and RestartCluster ask the topology for its TLS
\* configuration (lines 167, 212, 246); EnableCluster does not
NeedsTLS(kind) == kind \in {"start", "stop", "restart"}

\* StartCluster and StopCluster store the pipeline in operationInfo.curTask
\* (lines 182, 222)
StoresCurTask(kind) == kind \in {"start", "stop"}

\* the fields of OperationInfo a struct literal assigns
InfoFields == {"operationType", "clusterName", "curTask", "err"}

\* what the calls made by an operation can return: m.meta, topo.TLSConfig
\* and t.Execute
NotRun == 0 - 1
ErrValidate == 0 - 100
ErrMetaOther == 0 - 101
ErrTLS == 0 - 102
ErrTaskCast == 0 - 103
ErrTaskPlain == 0 - 104
MetaResults == {Nil, ErrValidate, ErrMetaOther}
TLSResults == {Nil, ErrTLS}
ExecuteResults == {Nil, ErrTaskCast, ErrTaskPlain}

\* errors.Is(perrs.Cause(err), meta.ErrValidate)
IsValidate(err) == err = ErrValidate

\* perrs.Trace(err): the error with a stack trace attached
Trace(err) == err - 1000

\* lines 132-138, 184-190, 224-230, 257-263: the error an operation returns
\* when t.Execute returned err
ExecuteErrorSwallowed(err) == Nil
ExecuteError(err) == IF err = ErrTaskCast THEN err ELSE Trace(err)

\* lines 111-113, 160-162, 205-207, 239-241: the load error ends the operation
MetaAbortsAlways(err) == err # Nil
MetaAborts(err) == err # Nil /\ ~IsValidate(err)

\* lines 151, 198: the value the struct literal gives to each field
InfoLiteral(o) ==
    [ operationType |-> mop[o].kind,
      clusterName   |-> "cluster" \o ToString(o),
      curTask       |-> 0,
      err           |-> Nil ]

IdleOperation(kind, wrapped) ==
    [ pc |-> "idle", kind |-> kind, wrapped |-> wrapped, pending |-> {},
      meta |-> NotRun, built |-> FALSE, exec |-> NotRun, ret |-> Nil ]

InitManager ==
    /\ operationInfo = [operationType |-> "", clusterName |-> "", curTask |-> 0,
                        err |-> Nil]
    /\ infoBy = [f \in InfoFields |-> 0]
    /\ mop = [o \in Callers |-> IdleOperation("start", FALSE)]

\* Caller o enters its operation: the wrapper's struct literal first when it
\* came through DoStartCluster / DoStopCluster.
ManagerCall(o) ==
    /\ mop[o].pc = "idle"
    /\ mop' = [mop EXCEPT ![o].pc = IF mop[o].wrapped THEN "store" ELSE "meta",
                          ![o].pending = IF mop[o].wrapped THEN InfoFields ELSE {}]
    /\ UNCHANGED <<operationInfo, infoBy>>
    /\ UNCHANGED ManagerFrame

\* Lines 151, 198: the assignment of the struct literal to the package-level
\* variable is not synchronised; it reaches memory one field at a time, in an
\* order the build chooses.
StoreInfoField(o, f) ==
    /\ mop[o].pc = "store"
    /\ f \in mop[o].pending
    /\ operationInfo' = [operationInfo EXCEPT ![f] = InfoLiteral(o)[f]]
    /\ infoBy' = [infoBy EXCEPT ![f] = IF f \in {"curTask", "err"} THEN 0 ELSE o]
    /\ mop' = [mop EXCEPT ![o].pending = mop[o].pending \ {f},
                          ![o].pc = IF mop[o].pending = {f} THEN "meta" ELSE "store"]
    /\ UNCHANGED ManagerFrame

\* Lines 110-113, 159-162, 204-207, 238-241: m.meta(name) returns.
LoadMeta(o, err) ==
    /\ mop[o].pc = "meta"
    /\ mop' = [mop EXCEPT ![o].meta = err,
                          ![o].ret = IF MetaAborts(err) THEN err ELSE Nil,
                          ![o].pc = IF MetaAborts(err) THEN "ret"
                                    ELSE IF NeedsTLS(mop[o].kind) THEN "tls"
                                    ELSE "build"]
    /\ UNCHANGED <<operationInfo, infoBy>>
    /\ UNCHANGED ManagerFrame

\* Lines 167-170, 212-215, 246-249: topo.TLSConfig returns.
LoadTLSConfig(o, err) ==
    /\ mop[o].pc = "tls"
    /\ mop' = [mop EXCEPT ![o].ret = err,
                          ![o].pc = IF err # Nil THEN "ret" ELSE "build"]
    /\ UNCHANGED <<operationInfo, infoBy>>
    /\ UNCHANGED ManagerFrame

\* Lines 118-130, 172-182, 217-222, 251-255: the pipeline is built, and
\* StartCluster / StopCluster store it in operationInfo.curTask.
BuildPipeline(o) ==
    /\ mop[o].pc = "build"
    /\ mop' = [mop EXCEPT ![o].built = TRUE, ![o].pc = "exec"]
    /\ IF StoresCurTask(mop[o].kind)
       THEN /\ operationInfo' = [operationInfo EXCEPT !.curTask = o]
            /\ infoBy' = [infoBy EXCEPT !.curTask = o]
       ELSE UNCHANGED <<operationInfo, infoBy>>
    /\ UNCHANGED ManagerFrame

\* Lines 132-138, 184-190, 224-230, 257-263: t.Execute returns.
ExecutePipeline(o, err) ==
    /\ mop[o].pc = "exec"
    /\ mop' = [mop EXCEPT ![o].exec = err,
                          ![o].ret = IF err # Nil THEN ExecuteError(err) ELSE Nil,
                          ![o].pc = "ret"]
    /\ UNCHANGED <<operationInfo, infoBy>>
    /\ UNCHANGED ManagerFrame

\* The operation returns; lines 152, 199: the wrapper stores the result.
ManagerReturn(o) ==
    /\ mop[o].pc = "ret"
    /\ mop' = [mop EXCEPT ![o].pc = "done"]
    /\ IF mop[o].wrapped
       THEN /\ operationInfo' = [operationInfo EXCEPT !.err = mop[o].ret]
            /\ infoBy' = [infoBy EXCEPT !.err = o]
       ELSE UNCHANGED <<operationInfo, infoBy>>
    /\ UNCHANGED ManagerFrame

\* ---------------------------------------------------------------- audit log
\* the directories EnableAuditLog is given, the line the audit core writes and
\* the line AddCustomAuditLog is given
AuditDirNames == {"dirA", "dirB"}
CoreLine == "cmd"
CustomLine == "custom"

\* what utils2.CreateDir and audit.OutputAuditLog can return
ErrCreateDir == 0 - 201
ErrOutputAuditLog == 0 - 202

\* line 56: the audit log is off and the call returns at once
OutputNeverSkipped(enabled) == FALSE
OutputSkipped(enabled) == ~enabled

\* lines 65-68: the buffer is reset only past the error check of the write
BufferResetRegardless(buf, writeErr) == <<>>
BufferAfterWrite(buf, writeErr) == IF writeErr # Nil THEN buf ELSE <<>>

\* Lines 55-71 on a buffer buf (core tells whether auditBuffer is nil), with
\* createErr and writeErr what utils2.CreateDir and audit.OutputAuditLog
\* return when they are reached.
OutputAuditLog(core, buf, createErr, writeErr) ==
    IF OutputSkipped(auditEnabled)
    THEN [ret |-> Nil, dirs |-> auditDirs, files |-> auditFiles, buffer |-> buf,
          panic |-> FALSE]
    ELSE IF createErr # Nil
    THEN [ret |-> createErr, dirs |-> auditDirs, files |-> auditFiles, buffer |-> buf,
          panic |-> FALSE]
    ELSE IF ~core
    THEN [ret |-> auditRet, dirs |-> auditDirs \cup {auditDir}, files |-> auditFiles,
          buffer |-> buf, panic |-> TRUE]
    ELSE IF writeErr # Nil
    THEN [ret |-> writeErr, dirs |-> auditDirs \cup {auditDir}, files |-> auditFiles,
          buffer |-> BufferAfterWrite(buf, writeErr), panic |-> FALSE]
    ELSE [ret |-> Nil, dirs |-> auditDirs \cup {auditDir},
          files |-> auditFiles \cup {<<auditDir, buf>>},
          buffer |-> BufferAfterWrite(buf, writeErr), panic |-> FALSE]

InitAudit ==
    /\ auditEnabled = FALSE
    /\ auditDir = ""
    /\ auditCore = FALSE
    /\ auditBuffer = <<>>
    /\ auditDirs = {}
    /\ auditFiles = {}
    /\ auditRet = Nil
    /\ auditCalls = 0
    /\ auditLast = [call |-> "none", createErr |-> Nil, writeErr |-> Nil]
    /\ auditPanic = FALSE

\* Lines 31-34.
EnableAuditLog(dir) ==
    /\ ~auditPanic
    /\ auditDir' = dir
    /\ auditEnabled' = TRUE
    /\ auditLast' = [call |-> "enable", createErr |-> Nil, writeErr |-> Nil]
    /\ UNCHANGED <<auditCore, auditBuffer, auditDirs, auditFiles, auditRet, auditCalls,
                   auditPanic>>
    /\ UNCHANGED AuditFrame

\* Lines 37-39.
DisableAuditLog ==
    /\ ~auditPanic
    /\ auditEnabled' = FALSE
    /\ auditLast' = [call |-> "disable", createErr |-> Nil, writeErr |-> Nil]
    /\ UNCHANGED <<auditDir, auditCore, auditBuffer, auditDirs, auditFiles, auditRet,
                   auditCalls, auditPanic>>
    /\ UNCHANGED AuditFrame

\* Lines 41-45.
newAuditLogCore ==
    /\ ~auditPanic
    /\ auditCore' = TRUE
    /\ auditBuffer' = <<>>
    /\ auditLast' = [call |-> "core", createErr |-> Nil, writeErr |-> Nil]
    /\ UNCHANGED <<auditEnabled, auditDir, auditDirs, auditFiles, auditRet, auditCalls,
                   auditPanic>>
    /\ UNCHANGED AuditFrame

\* The core returned by line 44 writes an entry into auditBuffer.
AuditCoreWrite ==
    /\ ~auditPanic
    /\ auditCore
    /\ Len(auditBuffer) < MaxBufferLines
    /\ auditBuffer' = Append(auditBuffer, CoreLine)
    /\ auditLast' = [call |-> "write", createErr |-> Nil, writeErr |-> Nil]
    /\ UNCHANGED <<auditEnabled, auditDir, auditCore, auditDirs, auditFiles, auditRet,
                   auditCalls, auditPanic>>
    /\ UNCHANGED AuditFrame

\* Lines 55-71, called on its own.
OutputAuditLogIfEnabled(createErr, writeErr) ==
    /\ ~auditPanic
    /\ auditCalls < MaxOutputCalls
    /\ auditCalls' = auditCalls + 1
    /\ LET out == OutputAuditLog(auditCore, auditBuffer, createErr, writeErr)
       IN  /\ auditRet' = out.ret
           /\ auditDirs' = out.dirs
           /\ auditFiles' = out.files
           /\ auditBuffer' = out.buffer
           /\ auditPanic' = out.panic
    /\ auditLast' = [call |-> "output", createErr |-> createErr, writeErr |-> writeErr]
    /\ UNCHANGED <<auditEnabled, auditDir, auditCore>>
    /\ UNCHANGED AuditFrame

\* Lines 48-52: the buffer is reset and given one line, then line 51 calls
\* OutputAuditLogIfEnabled; a nil auditBuffer panics at line 49.
AddCustomAuditLog(createErr, writeErr) ==
    /\ ~auditPanic
    /\ auditCalls < MaxOutputCalls
    /\ IF ~auditCore
       THEN /\ auditPanic' = TRUE
            /\ UNCHANGED <<auditRet, auditDirs, auditFiles, auditBuffer, auditCalls>>
       ELSE LET out == OutputAuditLog(TRUE, <<CustomLine>>, createErr, writeErr)
            IN  /\ auditCalls' = auditCalls + 1
                /\ auditRet' = out.ret
                /\ auditDirs' = out.dirs
                /\ auditFiles' = out.files
                /\ auditBuffer' = out.buffer
                /\ auditPanic' = out.panic
    /\ auditLast' = [call |-> "custom", createErr |-> createErr, writeErr |-> writeErr]
    /\ UNCHANGED <<auditEnabled, auditDir, auditCore>>
    /\ UNCHANGED AuditFrame

\* ---------------------------------------------------------------- reading the trace
IsBegin(e) == e[1] = "begin"
IsExecute(e) == e[1] = "execute"
IsReturn(e) == e[1] = "return"
IsFinish(e) == e[1] = "finish"

ChildrenOf(entries) == [j \in 1..Len(entries) |-> entries[j][2]]
UpTo(k) == [j \in 1..k |-> j]

BeginOrder == ChildrenOf(SelectSeq(trace, IsBegin))
ExecuteOrder == ChildrenOf(SelectSeq(trace, IsExecute))

\* positions of the trace where a child's Execute returned an error
FailIdx == { j \in DOMAIN trace : IsReturn(trace[j]) /\ trace[j][3] # Nil }
FailedChildren == { trace[j][2] : j \in FailIdx }
FirstFailed == trace[CHOOSE j \in FailIdx : \A m \in FailIdx : j <= m][2]

RECURSIVE DoneBlocks(_)
DoneBlocks(k) == IF k = 0 THEN <<>> ELSE DoneBlocks(k - 1) \o StepLines(inner[k], "Done")

\* ---------------------------------------------------------------- Serial: properties

\* C1: when Serial.Execute (ignoreError false) has returned and child k was the
\* first whose Execute failed, the result is the error of child k, the Execute
\* calls made are exactly those of children 1..k, once each and in order, and
\* no begin event exists for a child after k.
SerialFailFast ==
    (spc = "done" /\ ~ignoreError /\ FailIdx # {}) =>
        LET k == FirstFailed
        IN  /\ sret = ErrOf(k)
            /\ ExecuteOrder = UpTo(k)
            /\ BeginOrder = UpTo(k)

SerialFailFastWitness ==
    /\ spc = "done" /\ ~ignoreError /\ N >= 3
    /\ FailIdx # {} /\ FirstFailed = 2 /\ sret = ErrOf(2)

\* C2: when Serial.Execute has returned and no child failed, the result is nil
\* and Progress is exactly 100.
SerialAllSucceed ==
    (spc = "done" /\ FailIdx = {}) => (sret = Nil /\ Progress = 100)

SerialAllSucceedWitness ==
    /\ spc = "done" /\ N >= 2 /\ FailIdx = {}
    /\ ExecuteOrder = UpTo(N) /\ Progress = 100

\* C3: after a first Serial.Execute that returned nil with every child
\* succeeding, Steps is the "Done" lines of children 1..N, in child order.
SerialDoneLog ==
    (spc = "done" /\ sCalls = 1 /\ FailIdx = {} /\ sret = Nil) =>
        Steps = DoneBlocks(N)

\* C4: after a first Serial.Execute (ignoreError false) that returned the error
\* of child k, the step log (Steps followed by the lines of the current task)
\* is the "Done" lines of children 1..k-1 followed by the "Error" lines of child k.
SerialErrorLog ==
    (spc = "done" /\ sCalls = 1 /\ ~ignoreError /\ FailIdx # {}) =>
        LET k == FirstFailed
        IN  Steps \o CurTaskSteps = DoneBlocks(k - 1) \o StepLines(inner[k], "Error")

\* C5: when Serial.Execute with ignoreError true has returned, the result is
\* nil and the Execute calls made are exactly those of children 1..N, once each,
\* in insertion order, whichever children failed.
SerialIgnoreError ==
    (spc = "done" /\ ignoreError) => (sret = Nil /\ ExecuteOrder = UpTo(N))

SerialIgnoreErrorWitness ==
    /\ spc = "done" /\ ignoreError /\ N >= 3
    /\ Cardinality(FailedChildren) >= 2 /\ 1 \in FailedChildren

\* C6: the child Rollback calls made by Serial.Rollback go N, N-1, ... with no
\* gap and no repetition; once it has returned, either some child's Rollback
\* failed, that call is the last one made and its error is the result, or all N
\* children were rolled back and the result is nil.
RollbackFailed == { j \in DOMAIN rbOrder : rbOrder[j][2] # Nil }
SerialRollbackReverse ==
    /\ \A j \in DOMAIN rbOrder : rbOrder[j][1] = N - j + 1
    /\ rbpc = "done" =>
          IF RollbackFailed # {}
          THEN /\ RollbackFailed = {Len(rbOrder)}
               /\ rbRet = rbOrder[Len(rbOrder)][2]
               /\ rbRet = RbErrOf(N - Len(rbOrder) + 1)
          ELSE /\ Len(rbOrder) = N
               /\ rbRet = Nil

SerialRollbackReverseWitness ==
    /\ rbpc = "done" /\ N >= 3
    /\ Len(rbOrder) = 2 /\ rbOrder[1] = <<N, Nil>> /\ rbRet = RbErrOf(N - 1)

\* ---------------------------------------------------------------- Serial: progress, order, events
\* every child's Execute has been entered and has returned without error
AllExecutedOK ==
    /\ ExecuteOrder = UpTo(N)
    /\ Len(SelectSeq(trace, IsReturn)) = N
    /\ FailIdx = {}

\* C13: within one Execute call Progress never decreases, and
\* during the first call it is 100 only when every child has been executed
\* and all of them succeeded.
SerialProgressMonotone ==
    [][ /\ sCalls' = sCalls => Progress' >= Progress
        /\ (sCalls' = 1 /\ Progress' = 100) => AllExecutedOK' ]_vars

\* C17: the trace of one Execute is begin, execute, return, finish of child 1,
\* then the same of child 2, and so on: a child is begun and entered only after
\* the previous one has returned and its finish event is published, and at
\* most one child is inside its Execute.
Phase(j) == <<"begin", "execute", "return", "finish">>[((j - 1) % 4) + 1]
SerialTotalOrder ==
    /\ \A j \in DOMAIN trace : /\ trace[j][1] = Phase(j)
                               /\ trace[j][2] = ((j - 1) \div 4) + 1
    /\ Len(SelectSeq(trace, IsExecute)) - Len(SelectSeq(trace, IsReturn)) \in {0, 1}
    /\ spc = "running" <=>
          Len(SelectSeq(trace, IsExecute)) - Len(SelectSeq(trace, IsReturn)) = 1

SerialTotalOrderWitness ==
    /\ spc = "running" /\ si = 3 /\ Len(trace) = 10
    /\ trace[8] = <<"finish", 2, ErrOf(2)>>

\* C18: Serial.Rollback starts at child N whatever Execute did, and when no
\* child Rollback fails it rolls back N, N-1, ..., 1, children that were never
\* executed included.
Reversed(n) == [j \in 1..n |-> n - j + 1]
RolledBack == [j \in 1..Len(rbOrder) |-> rbOrder[j][1]]
SerialRollbackIgnoresExecute ==
    /\ rbOrder # <<>> => rbOrder[1][1] = N
    /\ (rbpc = "done" /\ RollbackFailed = {}) => RolledBack = Reversed(N)

SerialRollbackIgnoresExecuteWitness ==
    /\ rbpc = "done" /\ N >= 3 /\ RolledBack = Reversed(N)
    /\ spc = "done" /\ sCalls = 1 /\ sret = ErrOf(1) /\ ExecuteOrder = UpTo(1)

\* C19: in the trace of one Execute every child that was entered has exactly
\* one begin event, published before it was entered; every child past line 369
\* has exactly one finish event, published after its Execute returned and
\* carrying the returned error; the finish event of a failing child is there
\* while its lines are still tagged "Starting" and when Execute has returned.
BeginsOf(i) == { j \in DOMAIN trace : IsBegin(trace[j]) /\ trace[j][2] = i }
FinishesOf(i) == { j \in DOMAIN trace : IsFinish(trace[j]) /\ trace[j][2] = i }
SerialEvents ==
    /\ \A j \in DOMAIN trace :
          IsExecute(trace[j]) =>
              /\ Cardinality(BeginsOf(trace[j][2])) = 1
              /\ \A b \in BeginsOf(trace[j][2]) : b < j
    /\ \A j \in DOMAIN trace :
          IsReturn(trace[j]) =>
              /\ Cardinality(FinishesOf(trace[j][2])) =
                    (IF spc = "returned" /\ si = trace[j][2] THEN 0 ELSE 1)
              /\ \A f \in FinishesOf(trace[j][2]) :
                    f > j /\ trace[f][3] = trace[j][3]
    /\ spc = "finished" =>
          /\ trace[Len(trace)] = <<"finish", si, serr>>
          /\ CurTaskSteps = StepLines(inner[si], "Starting")
    /\ (spc = "done" /\ sret # Nil) => trace[Len(trace)] = <<"finish", si, sret>>

SerialEventsWitness ==
    /\ spc = "done" /\ ignoreError /\ N >= 2
    /\ trace[4] = <<"finish", 1, ErrOf(1)>> /\ Len(trace) = 4 * N

\* C20 as stated: the value assigned before a child runs is
\* started*100/N + max(1, (100/N)/2) with started counting that child.
HalfStep(n) == LET h == (100 \div n) \div 2 IN IF h >= 1 THEN h ELSE 1
ProgressCountsSelf ==
    startedTasks >= 1 => Progress = ((startedTasks * 100) \div N) + HalfStep(N)

\* C20 amended: the value assigned before a child runs is
\* started*100/N + max(1, (100/N)/2) where started is the number of children
\* begun before that child; started is then incremented.
ProgressCountsEarlier ==
    startedTasks >= 1 =>
        Progress = (((startedTasks - 1) * 100) \div N) + HalfStep(N)

ProgressCountsEarlierWitness ==
    N = 100 /\ startedTasks = 100 /\ Progress = 100

\* C23: Progress lies in 0..100 in every reachable state, whatever the number
\* of children and of Execute calls.
ProgressInRange == Progress \in 0..100

\* C24: on a fresh Serial of 1..200 children the value assigned before a
\* child of the first Execute runs is below 100.
ProvisionalBelowFull ==
    (N \in 1..200 /\ startedTasks \in 1..N) => Progress < 100

\* C25: Execute on a Serial without children returns nil with Progress 100,
\* publishes no event, logs nothing, leaves Steps and CurTaskSteps alone and
\* never runs the progress block with its division by the number of children.
SerialEmpty ==
    (N = 0 /\ sCalls >= 1) =>
        /\ spc \in {"loop", "done"}
        /\ trace = <<>> /\ logLines = <<>>
        /\ Steps = <<>> /\ CurTaskSteps = <<>>
        /\ startedTasks = 0
        /\ spc = "done" => (sret = Nil /\ Progress = 100)

SerialEmptyWitness ==
    N = 0 /\ sCalls = 2 /\ spc = "done" /\ sret = Nil /\ Progress = 100

\* ---------------------------------------------------------------- Serial.saveSteps: properties
\* the non-blank lines of a child's description
DescLines(i) == SelectSeq(inner[i].desc, NotBlank)
Tagged(i, stepStatus) ==
    [j \in 1..Len(DescLines(i)) |-> "- " \o DescLines(i)[j] \o " ... " \o stepStatus]
DoneLines == UNION { { Tagged(i, "Done")[j] : j \in DOMAIN Tagged(i, "Done") } : i \in 1..N }

\* C21: a "Starting" or "Error" call of saveSteps replaces CurTaskSteps by
\* one tagged line per non-blank line of the description and leaves Steps
\* alone; a "Done" call appends those lines to Steps and leaves CurTaskSteps
\* empty; so Steps only grows by appending and holds only "Done" lines.
SaveStepsBookkeeping ==
    [][ /\ lastSave' # <<>> =>
            LET i == lastSave'[1]
                st == lastSave'[2]
            IN  IF st = "Done"
                THEN /\ Steps' = Steps \o Tagged(i, "Done")
                     /\ CurTaskSteps' = <<>>
                ELSE /\ CurTaskSteps' = Tagged(i, st)
                     /\ Steps' = Steps
        /\ Len(Steps') >= Len(Steps)
        /\ SubSeq(Steps', 1, Len(Steps)) = Steps
        /\ \A j \in DOMAIN Steps' : Steps'[j] \in DoneLines ]_vars

SaveStepsBookkeepingWitness ==
    /\ lastSave = <<2, "Error">>
    /\ Steps = <<"- T1 ... Done">>
    /\ CurTaskSteps = <<"- T2 ... Error", "- T2b ... Error">>

\* ---------------------------------------------------------------- Serial.ComputeProgress: properties
\* M and F: the StepDisplays of the tree and those whose progress is 100
StepCount == Cardinality(StepIds)
FinishedCount == Cardinality({ id \in StepIds : sdProgress[id] = 100 })

\* C14: the percentage ComputeProgress returns is floor(F*100/M), and 0 when
\* the tree has no StepDisplay.
ComputeTotal ==
    cpCalls >= 1 =>
        cpResult.totalProgress =
            (IF StepCount = 0 THEN 0 ELSE (FinishedCount * 100) \div StepCount)

ComputeTotalWitness ==
    /\ cpCalls >= 1 /\ StepCount = 3 /\ FinishedCount = 2
    /\ cpResult.totalProgress = 66

\* C15: ComputeProgress visits every StepDisplay once, those inside a
\* ParallelStepDisplay included, counts each visit as one step, and counts a
\* step as finished exactly when its progress is 100.
ComputeCounts ==
    cpCalls >= 1 =>
        LET visited == cpResult.visited IN
        /\ \A j, k \in DOMAIN visited : visited[j] = visited[k] => j = k
        /\ { visited[j] : j \in DOMAIN visited } = StepIds
        /\ cpResult.allStepsCount = Len(visited)
        /\ cpResult.finishedSteps =
              Cardinality({ j \in DOMAIN visited : sdProgress[visited[j]] = 100 })

ComputeCountsWitness ==
    /\ cpCalls >= 1
    /\ cpResult.visited = << <<1>>, <<2, 1>>, <<2, 3>> >>
    /\ sdProgress[<<1>>] = 50 /\ sdProgress[<<2, 1>>] = 100 /\ sdProgress[<<2, 3>>] = 50
    /\ cpResult.allStepsCount = 3 /\ cpResult.finishedSteps = 1

\* the status string of a step
StatusLine(prefix, pr) == prefix \o " ... " \o ToString(pr) \o "%"

\* The lines child i stands for: its own string when it is a StepDisplay, its
\* prefix followed by the strings of its steps when it is a
\* ParallelStepDisplay; with every = FALSE only steps with progress above 0
\* are shown, and a header only when a step below it is shown.
ChildLines(i, every) ==
    IF inner[i].kind = "StepDisplay"
    THEN IF every \/ sdProgress[<<i>>] > 0
         THEN <<StatusLine(inner[i].prefix, sdProgress[<<i>>])>>
         ELSE <<>>
    ELSE IF inner[i].kind = "ParallelStepDisplay"
    THEN LET steps == inner[i].steps
             Shown(k) == /\ steps[k].kind = "StepDisplay"
                         /\ every \/ sdProgress[<<i, k>>] > 0
             ks == SelectSeq([k \in 1..Len(steps) |-> k], Shown)
             lines == [j \in 1..Len(ks) |->
                          StatusLine(steps[ks[j]].prefix, sdProgress[<<i, ks[j]>>])]
         IN  IF every \/ Len(lines) > 0
             THEN <<inner[i].prefix>> \o lines
             ELSE <<>>
    ELSE <<>>

RECURSIVE LinesFrom(_, _)
LinesFrom(i, every) ==
    IF i > N THEN <<>> ELSE ChildLines(i, every) \o LinesFrom(i + 1, every)

\* C22 as stated: the strings returned are, in child order, one string per
\* StepDisplay step, with the prefix of every ParallelStepDisplay child
\* right before the strings of its steps.
ComputeStatusEvery ==
    cpCalls >= 1 => cpResult.stepsStatus = LinesFrom(1, TRUE)

\* C22 amended: the strings returned are, in child order, one string per
\* StepDisplay step whose progress is above 0, with the prefix of every
\* ParallelStepDisplay child that has such a step right before the strings
\* of its steps.
ComputeStatusShown ==
    cpCalls >= 1 => cpResult.stepsStatus = LinesFrom(1, FALSE)

ComputeStatusShownWitness ==
    /\ cpCalls >= 1
    /\ cpResult.stepsStatus = <<"S1 ... 50%", "P2", "S2.1 ... 100%">>
    /\ sdProgress[<<2, 3>>] = 0

\* C16: a call of ComputeProgress changes no field of the Serial or of a
\* child and no position of a running Execute, and a call that follows
\* another with no progress field written in between returns the same result,
\* whatever Execute did in between.
ComputePure ==
    [][ cpCalls' > cpCalls =>
          /\ UNCHANGED <<cfgvars, svars, rbvars, sdProgress>>
          /\ cpCalls >= 1 => cpResult' = cpResult ]_vars

ComputePureWitness ==
    /\ cpCalls = 2 /\ spc = "running" /\ si = 2
    /\ cpResult.totalProgress = 50 /\ Progress = 75

\* ---------------------------------------------------------------- Parallel: properties
\* children whose Execute has returned an error
PFailed == { i \in 1..N : werr[i] # Nil }
\* the Execute of child i was entered once and has returned
PExecuted(i) == pstat[i].execute = 1 /\ wpc[i] \notin {"none", "start", "running"}

\* C7: when Parallel.Execute (ignoreError false) has returned and exactly one
\* child failed, the result is that child's error and every child's Execute was
\* entered exactly once and has returned.
ParallelOneFailure ==
    (ppc = "done" /\ ~ignoreError /\ Cardinality(PFailed) = 1) =>
        /\ \A k \in PFailed : pret = ErrOf(k)
        /\ \A i \in 1..N : PExecuted(i)

ParallelOneFailureWitness ==
    /\ ppc = "done" /\ ~ignoreError /\ N >= 3
    /\ PFailed = {2} /\ pret = ErrOf(2)

\* C8: when Parallel.Execute has returned, every goroutine has ended: each
\* child's Execute was entered once and returned, and its finish event was
\* published.
ParallelBarrier ==
    ppc = "done" =>
        \A i \in 1..N : /\ wpc[i] = "gone"
                        /\ pstat[i] = [begin |-> 1, execute |-> 1, finish |-> 1]

ParallelBarrierWitness ==
    /\ ppc = "done" /\ N >= 3
    /\ Cardinality(PFailed) >= 2 /\ pstat[N].finish = 1

\* C9: firstError is assigned at most once; when set it is the error of the
\* failing child whose goroutine acquired mu first; the result of
\* Parallel.Execute (ignoreError false) is that error if some child failed and
\* nil if none did.
ParallelFirstErrorWins ==
    /\ firstErrorWrites <= 1
    /\ firstError # Nil => (firstLocker \in PFailed /\ firstError = ErrOf(firstLocker))
    /\ (ppc = "done" /\ ~ignoreError) =>
          /\ pret = (IF PFailed = {} THEN Nil ELSE ErrOf(firstLocker))
          /\ (pret # Nil <=> PFailed # {})

ParallelFirstErrorWinsWitness ==
    /\ ppc = "done" /\ ~ignoreError
    /\ {1, 2} \subseteq PFailed /\ firstLocker = 2 /\ pret = ErrOf(2)

\* C10: when Parallel.Execute with ignoreError true has returned, the result is
\* nil whichever children failed, and every child's Execute was entered once
\* and has returned.
ParallelIgnoreError ==
    (ppc = "done" /\ ignoreError) =>
        /\ pret = Nil
        /\ \A i \in 1..N : PExecuted(i)

ParallelIgnoreErrorWitness ==
    /\ ppc = "done" /\ ignoreError /\ N >= 3
    /\ Cardinality(PFailed) >= 2 /\ firstError # Nil /\ pret = Nil

\* C26: a Parallel.Execute that was called returns, whatever children fail
\* and however their goroutines contend for mu.
ParallelTerminates == (ppc = "spawn") ~> (ppc = "done")

ParallelTerminatesWitness ==
    /\ ppc = "done" /\ N >= 3
    /\ Cardinality(PFailed) >= 2 /\ firstErrorWrites = 1

\* ---------------------------------------------------------------- Manager operations: properties
\* C28: whenever operationInfo.curTask or operationInfo.err holds a value an
\* operation stored, that operation is the one whose operationType and
\* clusterName the record holds (read while no wrapper is in the middle of
\* its struct assignment).
OperationInfoConsistent ==
    (\A o \in Callers : mop[o].pc # "store") =>
        /\ infoBy.curTask # 0 =>
              /\ infoBy.operationType = infoBy.curTask
              /\ infoBy.clusterName = infoBy.curTask
        /\ infoBy.err # 0 =>
              /\ infoBy.operationType = infoBy.err
              /\ infoBy.clusterName = infoBy.err

\* C29: a load error that is not a validation error ends the operation with
\* that error before a pipeline is built or executed; after a validation
\* error the pipeline is built and executed unless the TLS configuration
\* fails first; the operation returns nil exactly when t.Execute was reached
\* and returned nil.
OperationResult ==
    LET op == mop[1]
        over == op.pc \in {"ret", "done"}
    IN  /\ op.meta = ErrMetaOther =>
              (over /\ op.ret = ErrMetaOther /\ ~op.built /\ op.exec = NotRun)
        /\ (over /\ op.meta = ErrValidate /\ op.ret # ErrTLS) =>
              (op.built /\ op.exec # NotRun)
        /\ over => (op.ret = Nil <=> op.exec = Nil)
        /\ op.exec # NotRun => op.built

OperationResultWitness ==
    /\ mop[1].pc = "done" /\ mop[1].kind = "enable"
    /\ mop[1].meta = ErrValidate /\ mop[1].built
    /\ mop[1].exec = ErrTaskPlain /\ mop[1].ret = Trace(ErrTaskPlain)

\* ---------------------------------------------------------------- Parallel.Rollback: properties
\* children whose Rollback has returned an error
RFailed == { i \in 1..N : rerr[i] # Nil }

\* C11: when Parallel.Rollback has returned, the Rollback of every child was
\* called exactly once and every rollback goroutine has ended, whatever
\* Parallel.Execute did before (nothing, success or failure of that child); the
\* result is nil if no Rollback failed, else the error of the failing child
\* whose goroutine acquired mu first.
ParallelRollbackAll ==
    rpc = "done" =>
        /\ \A i \in 1..N : rstat[i] = 1 /\ rwpc[i] = "gone"
        /\ rret = (IF RFailed = {} THEN Nil ELSE RbErrOf(rFirstLocker))
        /\ RFailed # {} => rFirstLocker \in RFailed

ParallelRollbackAllWitness ==
    /\ rpc = "done" /\ ppc = "done" /\ N >= 3
    /\ werr[1] # Nil /\ werr[2] = Nil
    /\ {1, 2} \subseteq RFailed /\ rFirstLocker = 2 /\ rret = RbErrOf(2)

\* C27: ignoreError decides the result of Parallel.Execute only: with it set
\* Execute returns nil even when children failed, while Parallel.Rollback
\* returns the first captured rollback error for either value of the flag.
ParallelRollbackKeepsError ==
    /\ (ppc = "done" /\ ignoreError) => pret = Nil
    /\ rpc = "done" =>
          /\ rret = rfirstError
          /\ RFailed # {} => (rret # Nil /\ rret \in { RbErrOf(i) : i \in RFailed })

ParallelRollbackKeepsErrorWitness ==
    /\ ignoreError /\ N >= 2
    /\ ppc = "done" /\ PFailed # {} /\ pret = Nil
    /\ rpc = "done" /\ RFailed # {} /\ rret # Nil

\* the goroutines of Execute and of Rollback that have been given a ctx
ExecuteSpawned == { i \in 1..N : wctx[i] # NoHandle }
RollbackSpawned == { i \in 1..N : rctx[i] # NoHandle }

\* C12: the goroutines of one Parallel.Execute carry pairwise different
\* checkpoint handles, none of them the handle of the caller's ctx, and so do
\* the goroutines of one Parallel.Rollback; no handle is traced into by two
\* goroutines and nothing is traced into the caller's handle.
ParallelHandlesNotShared ==
    /\ \A i \in ExecuteSpawned : wctx[i] # ParentHandle
    /\ \A i \in RollbackSpawned : rctx[i] # ParentHandle
    /\ \A i, j \in ExecuteSpawned : i # j => wctx[i] # wctx[j]
    /\ \A i, j \in RollbackSpawned : i # j => rctx[i] # rctx[j]
    /\ \A h \in DOMAIN ckptTrace : Cardinality(ckptTrace[h]) <= 1
    /\ ckptTrace[ParentHandle] = {}

ParallelHandlesNotSharedWitness ==
    /\ ppc = "done" /\ rpc = "done" /\ N >= 3
    /\ \A i \in 1..N : /\ ckptTrace[wctx[i]] = {<<"Execute", i>>}
                       /\ ckptTrace[rctx[i]] = {<<"Rollback", i>>}

\* ---------------------------------------------------------------- audit log: properties
\* a step that is one call of OutputAuditLogIfEnabled on its own
OutputCalled == auditCalls' = auditCalls + 1 /\ auditLast'.call = "output"

\* C30: while the audit log is disabled (from the start, or since
\* DisableAuditLog) a call of OutputAuditLogIfEnabled returns nil, creates no
\* directory, writes no file and leaves the buffer as it was; while it is
\* enabled with directory dir, the only file the call writes holds the buffer's
\* contents and is in dir, and it is written whenever the buffer exists and
\* creating the directory and writing the file succeed.
AuditOutput ==
    [][ OutputCalled =>
          /\ ~auditEnabled =>
                /\ auditRet' = Nil
                /\ auditDirs' = auditDirs
                /\ auditFiles' = auditFiles
                /\ auditBuffer' = auditBuffer
                /\ ~auditPanic'
          /\ auditEnabled =>
                /\ auditFiles' \subseteq auditFiles \cup {<<auditDir, auditBuffer>>}
                /\ auditDirs' \subseteq auditDirs \cup {auditDir}
                /\ (auditCore /\ auditLast'.createErr = Nil /\ auditLast'.writeErr = Nil) =>
                      /\ <<auditDir, auditBuffer>> \in auditFiles'
                      /\ auditDir \in auditDirs'
                      /\ auditRet' = Nil
       ]_vars

\* The log was enabled with dirB, a line was written and put out into dirB,
\* the log was disabled, and a second OutputAuditLogIfEnabled has returned
\* with a line waiting in the buffer.
AuditOutputWitness ==
    /\ auditCalls = 2
    /\ auditLast.call = "output"
    /\ ~auditEnabled
    /\ auditBuffer = <<CoreLine>>
    /\ auditFiles = {<<"dirB", <<CoreLine>>>>}
    /\ auditDirs = {"dirB"}
    /\ auditRet = Nil


\* a step in which OutputAuditLogIfEnabled ran with the audit log enabled, on
\* its own or as line 51 of AddCustomAuditLog
OutputRan ==
    /\ auditEnabled
    /\ auditCalls' = auditCalls + 1
    /\ auditLast'.call \in {"output", "custom"}

\* the buffer OutputAuditLogIfEnabled found: AddCustomAuditLog has replaced it
\* by its own line before line 51
BufferHandedOver == IF auditLast'.call = "custom" THEN <<CustomLine>> ELSE auditBuffer

\* the error OutputAuditLogIfEnabled met first, Nil when it met none
OutputFailure ==
    IF auditLast'.createErr # Nil THEN auditLast'.createErr
    ELSE IF auditCore THEN auditLast'.writeErr
    ELSE Nil

\* lines in s that are also in t, as a prefix
IsPrefix(s, t) == Len(s) <= Len(t) /\ SubSeq(t, 1, Len(s)) = s

Init ==
    /\ InitConfig /\ InitSerial /\ InitRollback /\ InitParallel
    /\ InitParallelRollback /\ InitHandles /\ InitDisplay /\ InitManager
    /\ InitAudit

\* The groups given to a Parallel: its goroutines never read more of a child
\* than its kind and its result, so the empty description is left out.
InitForParallel == Init /\ \A i \in 1..N : inner[i].desc # <<"">>

NextSerial ==
    \/ SerialExecuteCall
    \/ SerialBeginChild
    \/ SerialChildCall
    \/ SerialChildReturn
    \/ SerialPublishFinish
    \/ SerialAfterChild
    \/ SerialFinish
    \/ SerialRollbackCall
    \/ SerialRollbackChild
    \/ SerialRollbackFinish

SpecSerial == Init /\ [][NextSerial]_vars

NextParallel ==
    \/ ParallelExecuteCall
    \/ ParallelSpawn
    \/ \E i \in 1..N : WorkerStart(i)
    \/ \E i \in 1..N : WorkerChildReturn(i)
    \/ \E i \in 1..N : WorkerFinish(i)
    \/ \E i \in 1..N : WorkerLock(i)
    \/ \E i \in 1..N : WorkerSetFirstError(i)
    \/ \E i \in 1..N : WorkerUnlock(i)
    \/ \E i \in 1..N : WorkerDone(i)
    \/ ParallelReturn

\* The progress block on groups of every size up to MaxGroupSize.
InitForProgress ==
    /\ inner \in LargeGroups
    /\ ignoreError = FALSE
    /\ hideDetailDisplay = FALSE
    /\ InitSerial /\ InitRollback /\ InitParallel
    /\ InitParallelRollback /\ InitHandles /\ InitDisplay /\ InitManager
    /\ InitAudit

NextProgress == SerialSaveProgress

SpecProgress == InitForProgress /\ [][NextProgress]_vars

\* Serial.Execute on a tree of display steps, with progress reports and
\* progress queries in between.
InitForCompute ==
    /\ inner \in DisplayGroups
    /\ ignoreError \in BOOLEAN
    /\ hideDetailDisplay = FALSE
    /\ InitSerial /\ InitRollback /\ InitParallel
    /\ InitParallelRollback /\ InitHandles /\ InitDisplay /\ InitManager
    /\ InitAudit

NextCompute ==
    \/ SerialExecuteCall
    \/ SerialBeginChild
    \/ SerialChildCall
    \/ SerialChildReturn
    \/ SerialPublishFinish
    \/ SerialAfterChild
    \/ SerialFinish
    \/ \E id \in StepIds : \E v \in ProgressValues : StepReport(id, v)
    \/ ComputeProgressCall

SpecCompute == InitForCompute /\ [][NextCompute]_vars

\* The task engine at rest, for the operations of the Manager: their
\* pipelines are built by code outside this module and stand for themselves.
InitEngineIdle ==
    /\ inner = <<>>
    /\ ignoreError = FALSE
    /\ hideDetailDisplay = FALSE
    /\ InitSerial /\ InitRollback /\ InitParallel
    /\ InitParallelRollback /\ InitHandles /\ InitDisplay /\ InitAudit

\* any step of caller o
ManagerStep(o) ==
    \/ ManagerCall(o)
    \/ \E f \in InfoFields : StoreInfoField(o, f)
    \/ \E err \in MetaResults : LoadMeta(o, err)
    \/ \E err \in TLSResults : LoadTLSConfig(o, err)
    \/ BuildPipeline(o)
    \/ \E err \in ExecuteResults : ExecutePipeline(o, err)
    \/ ManagerReturn(o)

InitOperationInfo ==
    /\ operationInfo = [operationType |-> "", clusterName |-> "", curTask |-> 0,
                        err |-> Nil]
    /\ infoBy = [f \in InfoFields |-> 0]

\* Every caller is about to enter one of the entry points, through its
\* wrapper or not.
EntryPoints ==
    { IdleOperation(kind, wrapped) : kind \in OperationKinds, wrapped \in BOOLEAN }
    \ { IdleOperation(kind, TRUE) : kind \in { k \in OperationKinds : ~HasWrapper(k) } }

\* One operation on its own: caller 1 is the only one to call.
InitForOperations ==
    /\ InitEngineIdle
    /\ InitOperationInfo
    /\ \E e \in EntryPoints :
          mop = [o \in Callers |-> IF o = 1 THEN e ELSE IdleOperation("start", FALSE)]

NextOperations == ManagerStep(1)

SpecOperations == InitForOperations /\ [][NextOperations]_vars

\* Every caller goes through DoStartCluster or DoStopCluster, at the same time
\* as the others.
InitForWrappers ==
    /\ InitEngineIdle
    /\ InitOperationInfo
    /\ mop \in [Callers -> { e \in EntryPoints : e.wrapped }]

NextWrappers == \E o \in Callers : ManagerStep(o)

SpecWrappers == InitForWrappers /\ [][NextWrappers]_vars

\* Package logger on its own: the audit log is switched on and off, the core
\* is created and written to, and the buffer is put out, in any order.
AuditErrors(err) == {Nil, err}

InitForAudit == InitEngineIdle /\ InitManager

NextAudit ==
    \/ \E dir \in AuditDirNames : EnableAuditLog(dir)
    \/ DisableAuditLog
    \/ newAuditLogCore
    \/ AuditCoreWrite
    \/ \E ce \in AuditErrors(ErrCreateDir) : \E we \in AuditErrors(ErrOutputAuditLog) :
          OutputAuditLogIfEnabled(ce, we)
    \/ \E ce \in AuditErrors(ErrCreateDir) : \E we \in AuditErrors(ErrOutputAuditLog) :
          AddCustomAuditLog(ce, we)

SpecAudit == InitForAudit /\ [][NextAudit]_vars

\* Serial.saveSteps on its own, with every status.
NextSaveSteps == \E i \in 1..N : \E st \in StepStatuses : SaveStepsCall(i, st)

SpecSaveSteps == Init /\ [][NextSaveSteps]_vars

SpecParallel == InitForParallel /\ [][NextParallel]_vars

\* Parallel.Rollback does not log: the groups are those of ad-hoc functions
\* with logging hidden.
InitForParallelRollback ==
    /\ InitForParallel
    /\ hideDetailDisplay
    /\ \A i \in 1..N : inner[i].kind = "Func"

\* Any step of the goroutine started for child i.
WorkerStep(i) ==
    /\ i <= N
    /\ \/ WorkerStart(i)
       \/ WorkerChildReturn(i)
       \/ WorkerFinish(i)
       \/ WorkerLock(i)
       \/ WorkerSetFirstError(i)
       \/ WorkerUnlock(i)
       \/ WorkerDone(i)

\* The scheduler keeps running the calling thread and every goroutine that
\* can take a step, and every child's Execute returns.
FairParallel ==
    /\ WF_vars(ParallelSpawn)
    /\ WF_vars(ParallelReturn)
    /\ \A i \in 1..MaxChildren : WF_vars(WorkerStep(i))

\* Whether a goroutine logs or not has no part in its termination: the groups
\* are those of ad-hoc functions with logging hidden.
SpecParallelFair == InitForParallelRollback /\ [][NextParallel]_vars /\ FairParallel

NextParallelRollback ==
    \/ NextParallel
    \/ ParallelRollbackCall
    \/ ParallelRollbackSpawn
    \/ \E i \in 1..N : RollbackWorkerStart(i)
    \/ \E i \in 1..N : RollbackWorkerChildReturn(i)
    \/ \E i \in 1..N : RollbackWorkerLock(i)
    \/ \E i \in 1..N : RollbackWorkerSetFirstError(i)
    \/ \E i \in 1..N : RollbackWorkerUnlock(i)
    \/ \E i \in 1..N : RollbackWorkerDone(i)
    \/ ParallelRollbackReturn

SpecParallelRollback == InitForParallelRollback /\ [][NextParallelRollback]_vars

====
